---- MODULE Spec2Model ----
(***************************************************************************)
(* Model of the dyadic crate: the DyadicFraction number type (src/lib.rs)  *)
(* and the PID Regulator built on it (src/pid.rs).                         *)
(*                                                                         *)
(* A DyadicFraction is a record [num, power] denoting num * 2^(-power),    *)
(* num a signed 32-bit integer and power a signed 8-bit integer.  Every    *)
(* operation of the type is an operator that returns the value the code    *)
(* computes with wrapping machine arithmetic (the release build) together  *)
(* with a flag `ovf` that records whether an overflow check of the         *)
(* language fired on the way (an i8 add/sub/abs that leaves the i8 range,  *)
(* a shift by an amount outside 0..31): with overflow checks compiled in   *)
(* (the debug build) the call panics exactly when `ovf` is set.            *)
(***************************************************************************)
EXTENDS Integers, Sequences, FiniteSets, TLC

VARIABLES
    build,          \* "debug" (overflow checks panic) or "release" (they wrap)
    pc,             \* position of the caller
    panicked,       \* the program aborted with a panic
    ovf,            \* an overflow check fired in some executed operation
    n1, p1, n2, p2, \* the raw constructor arguments
    a, b,           \* a = new(n1, p1), b = new(n2, p2)
    op,             \* the operation applied to a (and b)
    res,            \* a DyadicFraction result
    ires,           \* an i32 result
    bres,           \* a bool result
    ord,            \* an Ordering result
    target,         \* round: the requested denominator_power
    iters,          \* round: loop iterations executed so far
    reg,            \* the Regulator's fields
    sp, val,        \* the arguments of the latest update call
    out,            \* the value returned by the latest update call
    calls           \* number of update calls made

vars == <<build, pc, panicked, ovf, n1, p1, n2, p2, a, b, op, res, ires, bres,
          ord, target, iters, reg, sp, val, out, calls>>

numVars == <<n1, p1, n2, p2, a, b, op, res, ires, bres, ord, target, iters>>
pidVars == <<reg, sp, val, out, calls>>

(***************************************************************************)
(* Machine integers                                                        *)
(***************************************************************************)
MaxI32 == 2147483647
MinI32 == -MaxI32 - 1
MaxI8 == 127
MinI8 == -MaxI8 - 1
I32Bits == 32

\* Bounds of the model: the spans of small numerators and powers that are
\* enumerated around zero (the boundary values are always included), the
\* number of update calls, and the cap of the iteration counter of round.
NumSpan == 3
PowSpan == 1
MaxCalls == 2
IterCap == 258

Signum(n) == IF n > 0 THEN 1 ELSE IF n < 0 THEN -1 ELSE 0

\* two's-complement wrap of a mathematical integer into i8
Wrap8(x) == ((x - MinI8) % (2 * (MaxI8 + 1))) + MinI8

\* i32 << m for m in 0..31, the bits shifted out dropped: bits 0..30-m of n
\* move up by m and bit 31-m becomes the sign
ShlBits(n, m) ==
    IF m = 0 THEN n
    ELSE LET low  == n % (2 ^ (I32Bits - 1 - m))
             sign == (n \div (2 ^ (I32Bits - 1 - m))) % 2
             high == IF low = 0 THEN 0 ELSE low * (2 ^ m)
         IN  IF sign = 1 THEN MinI32 + high ELSE high

\* i32 >> m for m in 0..31, the arithmetic shift
ShrBits(n, m) ==
    IF m = I32Bits - 1 THEN (IF n < 0 THEN -1 ELSE 0) ELSE n \div (2 ^ m)

\* i32::shl / i32::shr with an i8 amount: the amount is masked to 5 bits when
\* the overflow check is compiled out; ShiftOverflows is that check.
ShiftOverflows(s) == s < 0 \/ s >= I32Bits
shl(n, s) == ShlBits(n, s % I32Bits)
shr(n, s) == ShrBits(n, s % I32Bits)

saturating_add(x, y) ==
    IF y > 0 /\ x > MaxI32 - y THEN MaxI32
    ELSE IF y < 0 /\ x < MinI32 - y THEN MinI32
    ELSE x + y

saturating_sub(x, y) ==
    IF y < 0 /\ x > MaxI32 + y THEN MaxI32
    ELSE IF y > 0 /\ x < MinI32 + y THEN MinI32
    ELSE x - y

saturating_mul(x, y) ==
    IF x = 0 \/ y = 0 THEN 0
    ELSE IF x > 0 /\ y > 0 THEN (IF x > MaxI32 \div y THEN MaxI32 ELSE x * y)
    ELSE IF x < 0 /\ y < 0 THEN
        (IF x = MinI32 \/ y = MinI32 THEN MaxI32
         ELSE IF (-x) > MaxI32 \div (-y) THEN MaxI32 ELSE x * y)
    ELSE IF x > 0 THEN (IF y < (MinI32 + x - 1) \div x THEN MinI32 ELSE x * y)
    ELSE (IF x < (MinI32 + y - 1) \div y THEN MinI32 ELSE x * y)

saturating_add_i8(x, y) ==
    IF x + y > MaxI8 THEN MaxI8 ELSE IF x + y < MinI8 THEN MinI8 ELSE x + y

(***************************************************************************)
(* DyadicFraction                                                          *)
(***************************************************************************)
DF(n, p) == [num |-> n, power |-> p]

zero == DF(0, 0)

\* a canonicalization that stops halving once power reaches 0
RECURSIVE canonical_loop_to_zero(_, _, _)
canonical_loop_to_zero(num, power, o) ==
    IF power > 0 /\ num # 0 /\ num % 2 = 0
    THEN canonical_loop_to_zero(num \div 2, power - 1, o)
    ELSE [val |-> DF(num, power), ovf |-> o]

RECURSIVE canonical_loop(_, _, _)
canonical_loop(num, power, o) ==
    IF num # 0 /\ num % 2 = 0
    THEN (IF power = MinI8
          THEN canonical_loop(num \div 2, Wrap8(power - 1), TRUE)
          ELSE canonical_loop(num \div 2, power - 1, o))
    ELSE [val |-> DF(num, power), ovf |-> o]

canonical(self) ==
    canonical_loop(self.num, IF self.num = 0 THEN 0 ELSE self.power, FALSE)

new(numerator, denominator_power) == canonical(DF(numerator, denominator_power))

div_by_two(self) ==
    [val |-> DF(self.num, Wrap8(self.power + 1)), ovf |-> self.power = MaxI8]

saturating_cross(self, other) ==
    LET min_power == IF self.power > other.power THEN other.power ELSE self.power
        max_power == IF self.power > other.power THEN self.power ELSE other.power
        d1     == other.power - min_power
        shift1 == Wrap8(d1)
        fst    == IF shift1 < I32Bits THEN shl(self.num, shift1)
                  ELSE IF self.num > 0 THEN MaxI32 ELSE MinI32
        d2     == self.power - min_power
        shift2 == Wrap8(d2)
        snd    == IF shift2 < I32Bits THEN shl(other.num, shift2)
                  ELSE IF other.num > 0 THEN MaxI32 ELSE MinI32
    IN  [fst |-> fst, snd |-> snd, power |-> max_power,
         ovf |-> \/ d1 > MaxI8
                 \/ d2 > MaxI8
                 \/ (shift1 < I32Bits /\ ShiftOverflows(shift1))
                 \/ (shift2 < I32Bits /\ ShiftOverflows(shift2))]

add(self, other) ==
    LET c == saturating_cross(self, other)
        r == new(saturating_add(c.fst, c.snd), c.power)
    IN  [val |-> r.val, ovf |-> c.ovf \/ r.ovf]

sub(self, other) ==
    LET c == saturating_cross(self, other)
        r == new(saturating_sub(c.fst, c.snd), c.power)
    IN  [val |-> r.val, ovf |-> c.ovf \/ r.ovf]

mul(self, other) ==
    new(saturating_mul(self.num, other.num),
        saturating_add_i8(self.power, other.power))

\* impl From<DyadicFraction> for i32
to_i32(v0) ==
    LET c     == canonical(v0)
        v     == c.val
        shift == IF v.power = MinI8 THEN MinI8
                 ELSE IF v.power < 0 THEN -v.power ELSE v.power
    IN  IF shift > I32Bits
        THEN [val |-> IF v.power < 0 THEN Signum(v.num) * MaxI32 ELSE 0,
              ovf |-> c.ovf \/ v.power = MinI8]
        ELSE [val |-> IF v.power < 0 THEN shl(v.num, shift) ELSE shr(v.num, shift),
              ovf |-> c.ovf \/ v.power = MinI8 \/ ShiftOverflows(shift)]

eq(self, other) ==
    LET lhs == canonical(self)
        rhs == canonical(other)
    IN  [val |-> lhs.val.power = rhs.val.power /\ lhs.val.num = rhs.val.num,
         ovf |-> lhs.ovf \/ rhs.ovf]

cmp(self, other) ==
    LET d     == sub(self, other)
        delta == Signum(d.val.num)
    IN  [val |-> IF delta = 0 THEN "Equal"
                 ELSE IF delta > 0 THEN "Greater" ELSE "Less",
         ovf |-> d.ovf]

max(lhs, rhs) ==
    LET c == cmp(lhs, rhs)
    IN  [val |-> IF c.val = "Greater" THEN lhs ELSE rhs, ovf |-> c.ovf]

min(lhs, rhs) ==
    LET c == cmp(lhs, rhs)
    IN  [val |-> IF c.val = "Less" THEN lhs ELSE rhs, ovf |-> c.ovf]


(***************************************************************************)
(* Inputs                                                                  *)
(***************************************************************************)
\* numerators: a span around zero and the values next to the i32 limits
Nums == (-NumSpan .. NumSpan) \cup {MinI32, MinI32 + 1, 2^29 + 1, 2^30 + 1, MaxI32}

\* powers: a span around zero, the values around the shift limit of 32 bits
\* and the i8 limits
Pows == (-PowSpan .. PowSpan) \cup
        {MinI8, -(I32Bits + 1), -I32Bits, -(I32Bits - 1),
         I32Bits - 1, I32Bits, I32Bits + 1, MaxI8}

Builds == {"debug", "release"}

pidIdle ==
    /\ reg = [kp |-> zero, ki |-> zero, kd |-> zero, last_error |-> zero,
              error_sum |-> zero, min_error_sum |-> zero, max_error_sum |-> zero]
    /\ sp = zero /\ val = zero /\ out = zero /\ calls = 0

numIdle ==
    /\ a = zero /\ b = zero /\ op = "none" /\ res = zero /\ ires = 0
    /\ bres = FALSE /\ ord = "none" /\ target = 0 /\ iters = 0

(***************************************************************************)
(* The number type: two values are constructed, then one operation is     *)
(* applied to them.                                                        *)
(***************************************************************************)
Init ==
    /\ build \in Builds
    /\ pc = "start" /\ panicked = FALSE /\ ovf = FALSE
    /\ n1 \in Nums /\ p1 \in Pows /\ n2 \in Nums /\ p2 \in Pows
    /\ numIdle
    /\ pidIdle

\* let a = DF::new(n1, p1); let b = DF::new(n2, p2);
New ==
    /\ pc = "start"
    /\ LET x == new(n1, p1)
           y == new(n2, p2)
           o == x.ovf \/ y.ovf
       IN  /\ ovf' = o
           /\ IF build = "debug" /\ o
              THEN pc' = "panic" /\ panicked' = TRUE /\ UNCHANGED <<a, b>>
              ELSE pc' = "ready" /\ a' = x.val /\ b' = y.val /\ UNCHANGED panicked
    /\ UNCHANGED <<build, n1, p1, n2, p2, op, res, ires, bres, ord, target, iters>>
    /\ UNCHANGED pidVars

\* one call on the constructed values: it panics when an overflow check
\* fires in the debug build, and returns the wrapped result otherwise
Apply(name, o, r, i, t, c) ==
    /\ pc = "ready"
    /\ op' = name
    /\ ovf' = (ovf \/ o)
    /\ IF build = "debug" /\ o
       THEN pc' = "panic" /\ panicked' = TRUE /\ UNCHANGED <<res, ires, bres, ord>>
       ELSE /\ pc' = "done" /\ res' = r /\ ires' = i /\ bres' = t /\ ord' = c
            /\ UNCHANGED panicked
    /\ UNCHANGED <<build, n1, p1, n2, p2, a, b, target, iters>>
    /\ UNCHANGED pidVars

Canonical == LET r == canonical(a) IN Apply("canonical", r.ovf, r.val, ires, bres, ord)
Add       == LET r == add(a, b) IN Apply("add", r.ovf, r.val, ires, bres, ord)
Sub       == LET r == sub(a, b) IN Apply("sub", r.ovf, r.val, ires, bres, ord)
Mul       == LET r == mul(a, b) IN Apply("mul", r.ovf, r.val, ires, bres, ord)
DivByTwo  == LET r == div_by_two(a) IN Apply("div_by_two", r.ovf, r.val, ires, bres, ord)
ToI32     == LET r == to_i32(a) IN Apply("to_i32", r.ovf, res, r.val, bres, ord)
Eq        == LET r == eq(a, b) IN Apply("eq", r.ovf, res, ires, r.val, ord)
Cmp       == LET r == cmp(a, b) IN Apply("cmp", r.ovf, res, ires, bres, r.val)
Max       == LET r == max(a, b) IN Apply("max", r.ovf, r.val, ires, bres, ord)
Min       == LET r == min(a, b) IN Apply("min", r.ovf, r.val, ires, bres, ord)

Next ==
    \/ New
    \/ Canonical
    \/ Add
    \/ Sub
    \/ Mul
    \/ DivByTwo
    \/ ToI32
    \/ Eq
    \/ Cmp
    \/ Max
    \/ Min

Spec == Init /\ [][Next]_vars

(***************************************************************************)
(* round, one loop iteration per step                                      *)
(***************************************************************************)
RoundInit ==
    /\ build \in Builds
    /\ pc = "start" /\ panicked = FALSE /\ ovf = FALSE
    /\ n1 \in Nums /\ p1 \in Pows /\ n2 = 0 /\ p2 = 0
    /\ numIdle
    /\ pidIdle

\* num &= !1
clear_low_bit(num) == num - (num % 2)

\* let mut res = self.canonical(); if denominator_power >= res.power { return res; }
RoundEnter ==
    /\ pc = "ready"
    /\ \E t \in Pows :
         LET r == canonical(a)
         IN  /\ target' = t
             /\ op' = "round"
             /\ iters' = 0
             /\ ovf' = (ovf \/ r.ovf)
             /\ IF build = "debug" /\ r.ovf
                THEN pc' = "panic" /\ panicked' = TRUE /\ UNCHANGED res
                ELSE /\ res' = r.val
                     /\ pc' = IF t >= r.val.power THEN "done" ELSE "round"
                     /\ UNCHANGED panicked
    /\ UNCHANGED <<build, n1, p1, n2, p2, a, b, ires, bres, ord>>
    /\ UNCHANGED pidVars

\* while res.power > denominator_power { res.num &= !1; res = res.canonical(); }
RoundLoop ==
    /\ pc = "round"
    /\ res.power > target
    /\ LET r == canonical(DF(clear_low_bit(res.num), res.power))
       IN  /\ iters' = IF iters < IterCap THEN iters + 1 ELSE iters
           /\ ovf' = (ovf \/ r.ovf)
           /\ IF build = "debug" /\ r.ovf
              THEN pc' = "panic" /\ panicked' = TRUE /\ UNCHANGED res
              ELSE /\ res' = r.val
                   /\ pc' = IF r.val.power > target THEN "round" ELSE "done"
                   /\ UNCHANGED panicked
    /\ UNCHANGED <<build, n1, p1, n2, p2, a, b, op, ires, bres, ord, target>>
    /\ UNCHANGED pidVars

RoundNext ==
    \/ New
    \/ RoundEnter
    \/ RoundLoop

RoundSpec == RoundInit /\ [][RoundNext]_vars

(***************************************************************************)
(* Regulator                                                               *)
(***************************************************************************)
\* impl From<i32> for DyadicFraction
from_i32(num) == new(num, 0).val

\* Ord::clamp as Regulator::update calls it: assert!(min <= max), then
\* if self < min { min } else if self > max { max } else { self }, each
\* comparison made by DyadicFraction::cmp.  abort: the assertion failed.
clamp(self, lo, hi) ==
    LET c0 == cmp(lo, hi)
        c1 == cmp(self, lo)
        c2 == cmp(self, hi)
    IN  [val   |-> IF c1.val = "Less" THEN lo
                   ELSE IF c2.val = "Greater" THEN hi ELSE self,
         ovf   |-> c0.ovf \/ c1.ovf \/ (c1.val # "Less" /\ c2.ovf),
         abort |-> c0.val = "Greater"]

Regulator_new(kp, ki, kd, lo, hi) ==
    [kp |-> kp, ki |-> ki, kd |-> kd, last_error |-> zero, error_sum |-> zero,
     min_error_sum |-> lo, max_error_sum |-> hi]

\* an update that stores last_error before it takes the difference, so that
\* the derivative term sees the current error instead of the preceding one
update_stale(s, v) ==
    \E error \in {sub(s, v)} :
    \E error_delta \in {sub(error.val, error.val)} :
    \E sum \in {add(reg.error_sum, error.val)} :
    \E clamped \in {clamp(sum.val, reg.min_error_sum, reg.max_error_sum)} :
    \E p \in {mul(error.val, reg.kp)} :
    \E i \in {mul(clamped.val, reg.ki)} :
    \E d \in {mul(error_delta.val, reg.kd)} :
    \E pi \in {add(p.val, i.val)} :
    \E pid \in {add(pi.val, d.val)} :
        LET o == \/ error.ovf \/ error_delta.ovf \/ sum.ovf \/ clamped.ovf
                 \/ p.ovf \/ i.ovf \/ d.ovf \/ pi.ovf \/ pid.ovf
        IN  /\ ovf' = (ovf \/ o)
            /\ IF clamped.abort \/ (build = "debug" /\ o)
               THEN pc' = "panic" /\ panicked' = TRUE /\ UNCHANGED <<reg, out>>
               ELSE /\ pc' = "ready"
                    /\ reg' = [reg EXCEPT !.last_error = error.val,
                                          !.error_sum = clamped.val]
                    /\ out' = pid.val
                    /\ UNCHANGED panicked

\* the body of Regulator::update(&mut self, sp, val): the statements in the
\* order of the code, each intermediate value bound once.  The call panics
\* when clamp's assertion fails, or when an overflow check fires in the debug
\* build; otherwise it stores last_error and error_sum and returns p + i + d.
\* The regulator is not observed again after a panic.
update(s, v) ==
    \E error \in {sub(s, v)} :
    \E error_delta \in {sub(error.val, reg.last_error)} :
    \E sum \in {add(reg.error_sum, error.val)} :
    \E clamped \in {clamp(sum.val, reg.min_error_sum, reg.max_error_sum)} :
    \E p \in {mul(error.val, reg.kp)} :
    \E i \in {mul(clamped.val, reg.ki)} :
    \E d \in {mul(error_delta.val, reg.kd)} :
    \E pi \in {add(p.val, i.val)} :
    \E pid \in {add(pi.val, d.val)} :
        LET o == \/ error.ovf \/ error_delta.ovf \/ sum.ovf \/ clamped.ovf
                 \/ p.ovf \/ i.ovf \/ d.ovf \/ pi.ovf \/ pid.ovf
        IN  /\ ovf' = (ovf \/ o)
            /\ IF clamped.abort \/ (build = "debug" /\ o)
               THEN pc' = "panic" /\ panicked' = TRUE /\ UNCHANGED <<reg, out>>
               ELSE /\ pc' = "ready"
                    /\ reg' = [reg EXCEPT !.last_error = error.val,
                                          !.error_sum = clamped.val]
                    /\ out' = pid.val
                    /\ UNCHANGED panicked

\* gains (kp, ki, kd) the regulator is constructed with
Gains == {<<from_i32(1), from_i32(1), from_i32(1)>>,
          <<new(1, 1).val, from_i32(2), from_i32(-1)>>,
          <<from_i32(3), new(1, 2).val, new(3, 1).val>>}

\* clamp bounds the regulator is constructed with (every pair, also min > max)
ClampBounds == {from_i32(-2), new(1, 2).val, new(7, 2).val, from_i32(2)}

\* setpoints and measured values
Setpoints == {from_i32(0), from_i32(1), from_i32(2^30 + 1), new(1, MinI8).val}
Measured  == {from_i32(0), new(1, 1).val, new(1, MaxI8).val}

PidInit ==
    /\ build \in Builds
    /\ pc = "ready" /\ panicked = FALSE /\ ovf = FALSE
    /\ n1 = 0 /\ p1 = 0 /\ n2 = 0 /\ p2 = 0
    /\ numIdle
    /\ \E g \in Gains : \E lo \in ClampBounds : \E hi \in ClampBounds :
         reg = Regulator_new(g[1], g[2], g[3], lo, hi)
    /\ sp = zero /\ val = zero /\ out = zero /\ calls = 0

\* regulator.update(s, v) with arguments already converted by Into<DF>
Update ==
    /\ pc = "ready"
    /\ calls < MaxCalls
    /\ \E s \in Setpoints : \E v \in Measured :
         /\ sp' = s
         /\ val' = v
         /\ calls' = calls + 1
         /\ update(s, v)
    /\ UNCHANGED <<build, numVars>>

PidNext == Update

PidSpec == PidInit /\ [][PidNext]_vars

(***************************************************************************)
(* The numbers denoted, in unbounded arithmetic.  A nonzero num * 2^(-power)*)
(* is written odd * 2^e with odd = OddPart(num), e = TwoExp(num, power).   *)
(***************************************************************************)
RECURSIVE TrailingZeros(_)
TrailingZeros(n) == IF n % 2 # 0 THEN 0 ELSE 1 + TrailingZeros(n \div 2)

RECURSIVE OddPart(_)
OddPart(n) == IF n % 2 # 0 THEN n ELSE OddPart(n \div 2)

TwoExp(n, p) == TrailingZeros(n) - p

\* n * 2^(-p) = m * 2^(-q)
SameNumber(n, p, m, q) ==
    IF n = 0 \/ m = 0 THEN n = m
    ELSE OddPart(n) = OddPart(m) /\ TwoExp(n, p) = TwoExp(m, q)

\* the order of o1 * 2^e1 and o2 * 2^e2 for odd o1, o2 in 1 .. 2^31 - 1
MagnitudeOrder(o1, e1, o2, e2) ==
    IF e1 = e2
    THEN (IF o1 = o2 THEN "Equal" ELSE IF o1 > o2 THEN "Greater" ELSE "Less")
    ELSE IF e1 > e2
    THEN (IF e1 - e2 >= I32Bits - 1 THEN "Greater"
          ELSE IF o1 > o2 \div (2 ^ (e1 - e2)) THEN "Greater" ELSE "Less")
    ELSE (IF e2 - e1 >= I32Bits - 1 THEN "Less"
          ELSE IF o2 > o1 \div (2 ^ (e2 - e1)) THEN "Less" ELSE "Greater")

Flip(o) == IF o = "Greater" THEN "Less" ELSE IF o = "Less" THEN "Greater" ELSE o

\* the order of the numbers denoted by the DyadicFractions x and y
NumberOrder(x, y) ==
    IF Signum(x.num) # Signum(y.num)
    THEN (IF Signum(x.num) > Signum(y.num) THEN "Greater" ELSE "Less")
    ELSE IF x.num = 0 THEN "Equal"
    ELSE IF x.num > 0
    THEN MagnitudeOrder(OddPart(x.num), TwoExp(x.num, x.power),
                        OddPart(y.num), TwoExp(y.num, y.power))
    ELSE Flip(MagnitudeOrder(-OddPart(x.num), TwoExp(x.num, x.power),
                             -OddPart(y.num), TwoExp(y.num, y.power)))

\* floor(n / 2^p) for p > 0
FloorDiv(n, p) ==
    IF p >= I32Bits - 1 THEN (IF n < 0 THEN -1 ELSE 0) ELSE n \div (2 ^ p)

\* n * 2^s for s >= 0, or the i32 extreme of n's sign when that does not fit
SaturatedTimesPow2(n, s) ==
    IF n = 0 THEN 0
    ELSE IF s >= I32Bits - 1
    THEN (IF n > 0 THEN MaxI32 ELSE MinI32)
    ELSE IF n > MaxI32 \div (2 ^ s) THEN MaxI32
    ELSE IF n < MinI32 \div (2 ^ s) THEN MinI32
    ELSE n * (2 ^ s)

\* the aligned numerator of the alignment rule: a shift of 32 or more gives
\* the extreme (MAX for a non-negative numerator), a smaller one saturates
AlignedNumerator(n, s) ==
    IF s >= I32Bits THEN (IF n >= 0 THEN MaxI32 ELSE MinI32)
    ELSE SaturatedTimesPow2(n, s)

PowerRange == 2 * (MaxI8 + 1)

(***************************************************************************)
(* Claims                                                                  *)
(***************************************************************************)

\* C1: new/canonical, +, -, *, div_by_two and the conversion to i32 complete
\* without any i8 or i32 arithmetic overflow and without a shift by a
\* negative amount or by 32 or more bits: no overflow check ever fires.
C1_NoOverflow == ~ovf

\* C2: a == b holds if and only if new(n1, p1) and new(n2, p2) denote the same
\* number, n1 * 2^(-p1) = n2 * 2^(-p2).
C2_EqIsNumberEquality ==
    (pc = "done" /\ op = "eq") => (bres <=> SameNumber(n1, p1, n2, p2))

\* C3: cmp(a, b) is the numeric order of the denoted values, max(a, b) is the
\* numerically larger operand and min(a, b) the numerically smaller one.
C3_OrderIsNumberOrder ==
    /\ (pc = "done" /\ op = "cmp") => ord = NumberOrder(a, b)
    /\ (pc = "done" /\ op = "max") =>
          (NumberOrder(res, a) # "Less" /\ NumberOrder(res, b) # "Less")
    /\ (pc = "done" /\ op = "min") =>
          (NumberOrder(res, a) # "Greater" /\ NumberOrder(res, b) # "Greater")

\* C4: the conversion to i32 returns floor(num / 2^power) for canonical power
\* > 0, and for power <= 0 num * 2^(-power) when it fits in i32 and otherwise
\* i32::MAX for a non-negative numerator, i32::MIN for a negative one.
C4_FloorConversion ==
    (pc = "done" /\ op = "to_i32") =>
        ires = IF a.power > 0 THEN FloorDiv(a.num, a.power)
               ELSE SaturatedTimesPow2(a.num, -a.power)

\* C5 as stated: canonicalization only lowers power while power > 0: the
\* result power is never below 0 when p >= 0, (n, p) is returned unchanged
\* whenever n is odd or (p <= 0 and n # 0), and a zero numerator gives (0, 0).
C5_StopsAtPowerZero ==
    pc = "ready" =>
        /\ (p1 >= 0 => a.power >= 0)
        /\ ((n1 % 2 = 1 \/ (p1 <= 0 /\ n1 # 0)) => a = DF(n1, p1))
        /\ (n1 = 0 => a = zero)

\* C5 as amended: canonicalization halves an even nonzero numerator whatever
\* the sign of power: for p >= 0 the result is (n / 2^k, p - k) with k the
\* number of trailing zero bits of n, so that its power can be below 0;
\* (n, p) is returned unchanged whenever n is odd, a zero numerator gives
\* (0, 0), and canonicalizing a constructed value again changes nothing.
C5_HalvesWhileEven ==
    /\ pc = "ready" =>
        /\ ((n1 # 0 /\ p1 >= 0) => a = DF(OddPart(n1), p1 - TrailingZeros(n1)))
        /\ (n1 % 2 = 1 => a = DF(n1, p1))
        /\ (n1 = 0 => a = zero)
    /\ (pc = "done" /\ op = "canonical") => res = a

\* an even numerator constructed at a non-negative power has been halved to
\* a power below 0
C5_Witness ==
    pc = "ready" /\ n1 # 0 /\ n1 % 2 = 0 /\ p1 >= 0 /\ a.power < 0 /\ a.num % 2 = 1

\* C6: for a regulator constructed with min_error_sum <= max_error_sum, after
\* every update call error_sum denotes a number between the numbers denoted
\* by min_error_sum and max_error_sum.
C6_AntiWindup ==
    (/\ calls > 0
     /\ ~panicked
     /\ NumberOrder(reg.min_error_sum, reg.max_error_sum) # "Greater")
    => /\ NumberOrder(reg.error_sum, reg.min_error_sum) # "Less"
       /\ NumberOrder(reg.error_sum, reg.max_error_sum) # "Greater"

C8_UpdateNeverAborts == build = "release" => ~panicked

\* C9: + and - return the saturating sum / difference, at power max(p1, p2)
\* and canonicalized, of the two numerators aligned with saturation: a shift
\* of 32 or more gives the extreme of the numerator's sign, a smaller shift
\* gives num * 2^shift when it fits in i32 and the extreme otherwise.
C9_AlignmentSaturates ==
    LET mp == IF a.power > b.power THEN a.power ELSE b.power
        fa == AlignedNumerator(a.num, mp - a.power)
        fb == AlignedNumerator(b.num, mp - b.power)
    IN  /\ (pc = "done" /\ op = "add") => res = new(saturating_add(fa, fb), mp).val
        /\ (pc = "done" /\ op = "sub") => res = new(saturating_sub(fa, fb), mp).val

\* C10: round returns after a number of loop iterations bounded by the power
\* range, with a result whose power is <= target_power whenever target_power
\* is below the value's canonical power.
C10_RoundBounded ==
    /\ iters <= PowerRange
    /\ (pc = "done" /\ op = "round" /\ target < a.power) => res.power <= target

====
